---- MODULE Spec2Model ----
(***************************************************************************)
(* A model of main.py: the prompt-generation pipeline                      *)
(*   load_api_key -> read_prompt_from_file -> generate_responses ->        *)
(*   write_raw_responses_to_file -> process_responses ->                   *)
(*   write_prompts_to_file.                                                *)
(*                                                                         *)
(* Text is modelled as a sequence of lexical tokens (strings): the code    *)
(* fence markers, the newline, the JSON punctuation and whole JSON         *)
(* objects are one token each.  A file is the sequence of tokens written   *)
(* to it.  The delay is counted in half seconds, so that "+= 0.5" is an    *)
(* integer step.                                                           *)
(***************************************************************************)
EXTENDS Integers, Sequences, FiniteSets, TLC

VARIABLES
    pc,                \* position of main: the next statement to run
    run,               \* number of the current process run (1, 2, ...)
    exc,               \* the exception raised in this run, "none" when there is none
    envKey,            \* GOOGLE_API_KEY in the environment: "unset", "empty", "set"
    promptStatus,      \* prompt.txt: "ok", "missing", "unreadable"
    generation_count,  \* parameter of generate_responses
    slot,              \* index of the for loop of generate_responses
    delay,             \* local delay, in half seconds
    errors,            \* local errors
    responses,         \* local responses / main's responses
    extracted_prompts, \* main's extracted_prompts
    rawFile,           \* content of raw_responses.txt
    outFile,           \* content of prompts_meat.txt
    calls,             \* history: calls of model.generate_content in this run
    others,            \* history: calls that failed with a non rate-limit error
    lastSleep,         \* history: duration of the last time.sleep, 0 when none
    lastOutcome,       \* history: outcome of the last call
    granted,           \* history: the texts the service returned, in call order
    rawStart,          \* history: rawFile when the run started
    outStart,          \* history: outFile when the run started
    rawOpened,         \* history: open(RAW_RESPONSES_FILE, "w") was called in this run
    outOpened,         \* history: open(OUTPUT_FILE, "a") was called in this run
    ioFault            \* history: the write step an I/O error hit in this run

vars == <<pc, run, exc, envKey, promptStatus, generation_count, slot, delay,
          errors, responses, extracted_prompts, rawFile, outFile, calls,
          others, lastSleep, lastOutcome, granted, rawStart, outStart,
          rawOpened, outOpened, ioFault>>

(***************************************************************************)
(* Program constants.                                                      *)
(***************************************************************************)
GENERATION_COUNT == 10
INITIAL_DELAY == 3
\* "delay += 0.5", in half seconds
DELAY_INCREMENT == 1
\* "if errors>20"
ERROR_CEILING == 20

(***************************************************************************)
(* Bounds of the model.                                                    *)
(***************************************************************************)
\* largest generation_count given to generate_responses called on its own
MaxCount == 3
\* longest list given to process_responses called on its own
MaxResp == 3
\* runs of the process
MaxRuns == 2
\* successful calls the service grants in one run of main
MaxBatch == 2
\* rate-limit errors the service raises in one run of main
MaxRateLimited == 1

(***************************************************************************)
(* Tokens of a response text.                                              *)
(***************************************************************************)
\* the code fence markers; the quote stands for the backquote, as in the
\* comments of extract_prompts_from_json
FenceOpen == "'''json"
FenceClose == "'''"
NL == "\n"
ObjA == "{prompt:a}"
ObjB == "{prompt:b}"
ObjMultiline == "{prompt:a\\nb}"
ObjNumber == "{prompt:5}"
ObjNoPrompt == "{notprompt:x}"

ObjectTokens == {ObjA, ObjB, ObjMultiline, ObjNumber, ObjNoPrompt}

\* The value json.loads gives an object token: its keys, and the value of
\* "prompt" (a str, as the sequence of its characters, or a number).
ObjectValue(tok) ==
    CASE tok = ObjA -> [keys |-> {"prompt"}, isStr |-> TRUE, text |-> <<"a">>]
      [] tok = ObjB -> [keys |-> {"prompt"}, isStr |-> TRUE, text |-> <<"b">>]
      [] tok = ObjMultiline ->
            [keys |-> {"prompt"}, isStr |-> TRUE, text |-> <<"a", NL, "b">>]
      [] tok = ObjNumber -> [keys |-> {"prompt"}, isStr |-> FALSE, text |-> <<"5">>]
      [] OTHER -> [keys |-> {"notprompt"}, isStr |-> TRUE, text |-> <<"x">>]

\* Response bodies the service may return.
FencedA == <<FenceOpen, NL, "[", ObjA, "]", NL, FenceClose>>
PlainAB == <<"[", ObjA, ",", ObjB, "]">>
NotJson == <<"{not json">>
PartlyKeyed == <<"[", ObjA, ",", ObjNoPrompt, "]">>
NumberPrompt == <<"[", ObjA, ",", ObjNumber, "]">>
MultilinePrompt == <<"[", ObjMultiline, "]">>
TopLevelObject == <<ObjA>>
PlainB == <<"[", ObjB, "]">>

AllBodies == {FencedA, PlainAB, NotJson, PartlyKeyed, NumberPrompt,
              MultilinePrompt, TopLevelObject}
GenBodies == {FencedA, PlainB}
MainBodies == {FencedA, NumberPrompt, MultilinePrompt}

(***************************************************************************)
(* extract_prompts_from_json and process_responses.                        *)
(***************************************************************************)
RECURSIVE IsElements(_, _)
\* t[i..Len(t)] is "value (, value)*"
IsElements(t, i) ==
    /\ i <= Len(t)
    /\ t[i] \in ObjectTokens
    /\ \/ i = Len(t)
       \/ /\ i + 1 < Len(t)
          /\ t[i + 1] = ","
          /\ IsElements(t, i + 2)

\* json.loads: whitespace between tokens is skipped; the text is one object
\* or an array of objects, anything else is a JSONDecodeError.
JsonLoads(s) ==
    LET t == SelectSeq(s, LAMBDA x : x # NL)
        inner == SubSeq(t, 2, Len(t) - 1)
    IN  IF Len(t) = 1 /\ t[1] \in ObjectTokens
          THEN [ok |-> TRUE, kind |-> "dict", items |-> t]
        ELSE IF /\ Len(t) >= 2
                /\ t[1] = "["
                /\ t[Len(t)] = "]"
                /\ (Len(inner) = 0 \/ IsElements(inner, 1))
          THEN [ok |-> TRUE, kind |-> "list",
                items |-> SelectSeq(inner, LAMBDA x : x # ",")]
        ELSE [ok |-> FALSE, kind |-> "none", items |-> <<>>]

\* mutant: an item without the key is skipped
RECURSIVE PromptsOf_SkipsItem(_, _, _)
PromptsOf_SkipsItem(items, i, acc) ==
    IF i > Len(items) THEN [status |-> "ok", prompts |-> acc]
    ELSE IF "prompt" \notin ObjectValue(items[i]).keys
      THEN PromptsOf_SkipsItem(items, i + 1, acc)
    ELSE PromptsOf_SkipsItem(items, i + 1,
                   Append(acc, [isStr |-> ObjectValue(items[i]).isStr,
                                text |-> ObjectValue(items[i]).text]))

RECURSIVE PromptsOf(_, _, _)
\* [item["prompt"] for item in data]: the first item without the key raises
\* KeyError and the list built so far is dropped.
PromptsOf(items, i, acc) ==
    IF i > Len(items) THEN [status |-> "ok", prompts |-> acc]
    ELSE IF "prompt" \notin ObjectValue(items[i]).keys
      THEN [status |-> "KeyError", prompts |-> <<>>]
    ELSE PromptsOf(items, i + 1,
                   Append(acc, [isStr |-> ObjectValue(items[i]).isStr,
                                text |-> ObjectValue(items[i]).text]))

extract_prompts_from_json(json_string) ==
    LET s1 == IF Len(json_string) > 0 /\ Head(json_string) = FenceOpen
                THEN Tail(json_string) ELSE json_string
        s2 == IF Len(s1) > 0 /\ s1[Len(s1)] = FenceClose
                THEN SubSeq(s1, 1, Len(s1) - 1) ELSE s1
        data == JsonLoads(s2)
    IN  IF ~data.ok THEN [status |-> "ValueError", prompts |-> <<>>]
        \* iterating a dict gives its keys, and str["prompt"] is a TypeError
        ELSE IF data.kind = "dict" THEN [status |-> "RuntimeError", prompts |-> <<>>]
        ELSE PromptsOf(data.items, 1, <<>>)

\* "except (ValueError, KeyError, RuntimeError)" of process_responses
ProcessCatches(status) == status \in {"ValueError", "KeyError", "RuntimeError"}

RECURSIVE ProcessLoop(_, _, _)
ProcessLoop(rs, i, all_prompts) ==
    IF i > Len(rs) THEN [status |-> "ok", prompts |-> all_prompts]
    ELSE LET e == extract_prompts_from_json(rs[i])
         IN  IF e.status = "ok"
               THEN ProcessLoop(rs, i + 1, all_prompts \o e.prompts)
             ELSE IF ProcessCatches(e.status)
               THEN ProcessLoop(rs, i + 1, all_prompts)
             ELSE [status |-> e.status, prompts |-> <<>>]

process_responses(rs) == ProcessLoop(rs, 1, <<>>)

(***************************************************************************)
(* Text written to the two files.                                          *)
(***************************************************************************)
RECURSIVE RawText(_)
\* file.write(response + "\n") for each response
RawText(rs) ==
    IF rs = <<>> THEN <<>> ELSE Head(rs) \o <<NL>> \o RawText(Tail(rs))

RECURSIVE Writable(_)
\* The prompts written before prompt + "\n" raises TypeError: the longest
\* prefix of str values.
Writable(prompts) ==
    IF prompts = <<>> \/ ~Head(prompts).isStr THEN <<>>
    ELSE <<Head(prompts)>> \o Writable(Tail(prompts))

RECURSIVE PromptText(_)
\* file.write(prompt + "\n") for each prompt
PromptText(prompts) ==
    IF prompts = <<>> THEN <<>>
    ELSE Head(prompts).text \o <<NL>> \o PromptText(Tail(prompts))

(***************************************************************************)
(* Initial states.                                                         *)
(***************************************************************************)
EnvKeys == {"unset", "empty", "set"}
PromptStates == {"ok", "missing", "unreadable"}

\* A fresh process, before main runs; the files are those the runs before left.
StartOfRun(raw, out) ==
    /\ pc = "load_api_key"
    /\ exc = "none"
    /\ envKey \in EnvKeys
    /\ promptStatus \in PromptStates
    /\ generation_count = 0
    /\ slot = 0
    /\ delay = 0
    /\ errors = 0
    /\ responses = <<>>
    /\ extracted_prompts = <<>>
    /\ rawFile = raw
    /\ outFile = out
    /\ calls = 0
    /\ others = 0
    /\ lastSleep = 0
    /\ lastOutcome = "none"
    /\ granted = <<>>
    /\ rawStart = raw
    /\ outStart = out
    /\ rawOpened = FALSE
    /\ outOpened = FALSE
    /\ ioFault = "none"

Init ==
    /\ run = 1
    /\ StartOfRun(<<>>, <<>>)

(***************************************************************************)
(* main, lines 120-121: the configuration.                                 *)
(***************************************************************************)
Raise(kind) ==
    /\ exc' = kind
    /\ pc' = "except"

\* mutant: the test "api_key is None"
KeyMissing_OnlyUnset(v) == v = "unset"

\* "if not api_key": None and "" are both false
KeyMissing(v) == v \in {"unset", "empty"}

LoadApiKey ==
    /\ pc = "load_api_key"
    /\ IF KeyMissing(envKey)
         THEN Raise("ValueError")
         ELSE pc' = "read_prompt" /\ exc' = exc
    /\ UNCHANGED <<granted, run, envKey, promptStatus, generation_count, slot,
                   delay, errors, responses, extracted_prompts, rawFile,
                   outFile, calls, others, lastSleep, lastOutcome, rawStart,
                   outStart, rawOpened, outOpened, ioFault>>

ReadPrompt ==
    /\ pc = "read_prompt"
    /\ CASE promptStatus = "missing" -> Raise("FileNotFoundError")
         [] promptStatus = "unreadable" -> Raise("RuntimeError")
         [] OTHER -> pc' = "generate_enter" /\ exc' = exc
    /\ UNCHANGED <<granted, run, envKey, promptStatus, generation_count, slot,
                   delay, errors, responses, extracted_prompts, rawFile,
                   outFile, calls, others, lastSleep, lastOutcome, rawStart,
                   outStart, rawOpened, outOpened, ioFault>>

(***************************************************************************)
(* generate_responses.                                                     *)
(***************************************************************************)
\* Where control goes when the for loop has to start iteration s: the body
\* of the loop, or the return to main's next statement.
LoopAt(s, n) == IF s < n THEN "generate" ELSE "write_raw"

\* lines 44-48, called with GENERATION_COUNT at line 122
GenerateEnter ==
    /\ pc = "generate_enter"
    /\ generation_count' = GENERATION_COUNT
    /\ responses' = <<>>
    /\ delay' = 2 * INITIAL_DELAY
    /\ errors' = 0
    /\ slot' = 0
    /\ pc' = LoopAt(0, GENERATION_COUNT)
    /\ UNCHANGED <<granted, run, exc, envKey, promptStatus, extracted_prompts,
                   rawFile, outFile, calls, others, lastSleep, lastOutcome,
                   rawStart, outStart, rawOpened, outOpened, ioFault>>

\* "break": the while loop ends and the for loop takes its next iteration
BreakWhile ==
    /\ slot' = slot + 1
    /\ pc' = LoopAt(slot + 1, generation_count)

\* the while loop takes another iteration of the same slot
ContinueWhile ==
    /\ slot' = slot
    /\ pc' = "generate"

\* mutant: the test "errors > 21"
CeilingExceeded_OffByOne(e) == e > ERROR_CEILING + 1

\* "if errors>20"
CeilingExceeded(e) == e > ERROR_CEILING

\* mutant: a success sets the delay back to INITIAL_DELAY
ApiSuccess_ResetsDelay(body) ==
    /\ pc = "generate"
    /\ responses' = Append(responses, body)
    /\ delay' = 2 * INITIAL_DELAY
    /\ lastSleep' = delay'
    /\ BreakWhile
    /\ calls' = calls + 1
    /\ lastOutcome' = "ok"
    /\ granted' = Append(granted, body)
    /\ UNCHANGED <<run, exc, envKey, promptStatus, generation_count, errors,
                   extracted_prompts, rawFile, outFile, others, rawStart,
                   outStart, rawOpened, outOpened, ioFault>>

\* lines 52-55: the call succeeds
ApiSuccess(body) ==
    /\ pc = "generate"
    /\ responses' = Append(responses, body)
    /\ lastSleep' = delay
    /\ BreakWhile
    /\ calls' = calls + 1
    /\ lastOutcome' = "ok"
    /\ granted' = Append(granted, body)
    /\ UNCHANGED <<run, exc, envKey, promptStatus, generation_count, delay,
                   errors, extracted_prompts, rawFile, outFile, others,
                   rawStart, outStart, rawOpened, outOpened, ioFault>>

\* mutant: a rate-limit failure ends the slot, as any other failure does
ApiRateLimited_LeavesSlot ==
    /\ pc = "generate"
    /\ delay' = delay + DELAY_INCREMENT
    /\ lastSleep' = delay'
    /\ errors' = errors + 1
    /\ BreakWhile
    /\ calls' = calls + 1
    /\ lastOutcome' = "rate"
    /\ UNCHANGED <<granted, run, exc, envKey, promptStatus, generation_count,
                   responses, extracted_prompts, rawFile, outFile, others,
                   rawStart, outStart, rawOpened, outOpened, ioFault>>

\* lines 56-61 and 66-67: the call raises an error whose text holds
\* "rateLimitExceeded"
ApiRateLimited ==
    /\ pc = "generate"
    /\ delay' = delay + DELAY_INCREMENT
    /\ lastSleep' = delay'
    /\ errors' = errors + 1
    /\ IF CeilingExceeded(errors') THEN BreakWhile ELSE ContinueWhile
    /\ calls' = calls + 1
    /\ lastOutcome' = "rate"
    /\ UNCHANGED <<granted, run, exc, envKey, promptStatus, generation_count,
                   responses, extracted_prompts, rawFile, outFile, others,
                   rawStart, outStart, rawOpened, outOpened, ioFault>>

\* mutant: any other failure leaves both loops
ApiOtherError_EndsBatch ==
    /\ pc = "generate"
    /\ slot' = slot + 1
    /\ pc' = "write_raw"
    /\ calls' = calls + 1
    /\ others' = others + 1
    /\ lastOutcome' = "other"
    /\ UNCHANGED <<granted, run, exc, envKey, promptStatus, generation_count,
                   delay, errors, responses, extracted_prompts, rawFile,
                   outFile, lastSleep, rawStart, outStart, rawOpened,
                   outOpened, ioFault>>

\* lines 56-57 and 62-65: the call raises any other error
ApiOtherError ==
    /\ pc = "generate"
    /\ BreakWhile
    /\ calls' = calls + 1
    /\ others' = others + 1
    /\ lastOutcome' = "other"
    /\ UNCHANGED <<granted, run, exc, envKey, promptStatus, generation_count,
                   delay, errors, responses, extracted_prompts, rawFile,
                   outFile, lastSleep, rawStart, outStart, rawOpened,
                   outOpened, ioFault>>

(***************************************************************************)
(* main, lines 123-126: the writers and the extraction.                    *)
(***************************************************************************)
\* line 123.  open(file_path, "w") fails and leaves the file as it is, or
\* truncates it; a write may fail after k responses went to the file.
WriteRaw ==
    /\ pc = "write_raw"
    /\ rawOpened' = TRUE
    /\ \/ /\ rawFile' = rawFile
          /\ ioFault' = "raw"
          /\ Raise("RuntimeError")
       \/ \E k \in 0 .. (Len(responses) - 1) :
             /\ rawFile' = RawText(SubSeq(responses, 1, k))
             /\ ioFault' = "raw"
             /\ Raise("RuntimeError")
       \/ /\ rawFile' = RawText(responses)
          /\ ioFault' = ioFault
          /\ pc' = "process"
          /\ exc' = exc
    /\ UNCHANGED <<granted, run, envKey, promptStatus, generation_count, slot,
                   delay, errors, responses, extracted_prompts, outFile,
                   calls, others, lastSleep, lastOutcome, rawStart, outStart,
                   outOpened>>

\* line 124
ProcessResponses ==
    /\ pc = "process"
    /\ LET r == process_responses(responses)
       IN  IF r.status = "ok"
             THEN /\ extracted_prompts' = r.prompts
                  /\ pc' = "write_prompts"
                  /\ exc' = exc
             ELSE /\ extracted_prompts' = extracted_prompts
                  /\ Raise(r.status)
    /\ UNCHANGED <<granted, run, envKey, promptStatus, generation_count, slot,
                   delay, errors, responses, rawFile, outFile, calls, others,
                   lastSleep, lastOutcome, rawStart, outStart, rawOpened,
                   outOpened, ioFault>>

\* lines 125-126.  open(file_path, "a") fails, or a write fails after k
\* prompts went to the file, or prompt + "\n" raises TypeError at the first
\* prompt that is no str; what was written before stays in the file.
WritePrompts ==
    /\ pc = "write_prompts"
    /\ outOpened' = TRUE
    /\ LET w == Writable(extracted_prompts)
       IN  \/ /\ outFile' = outFile
              /\ ioFault' = "out"
              /\ Raise("RuntimeError")
           \/ \E k \in 0 .. (Len(w) - 1) :
                 /\ outFile' = outFile \o PromptText(SubSeq(w, 1, k))
                 /\ ioFault' = "out"
                    /\ Raise("RuntimeError")
           \/ /\ outFile' = outFile \o PromptText(w)
              /\ ioFault' = ioFault
              /\ IF Len(w) < Len(extracted_prompts)
                   THEN Raise("RuntimeError")
                   ELSE pc' = "done" /\ exc' = exc
    /\ UNCHANGED <<granted, run, envKey, promptStatus, generation_count, slot,
                   delay, errors, responses, extracted_prompts, rawFile,
                   calls, others, lastSleep, lastOutcome, rawStart, outStart,
                   rawOpened>>

\* "except Exception" of main: every exception the steps raise is one
MainCatches(kind) ==
    kind \in {"ValueError", "KeyError", "RuntimeError", "FileNotFoundError"}

\* lines 127-129
MainExcept ==
    /\ pc = "except"
    /\ pc' = IF MainCatches(exc) THEN "done" ELSE "escaped"
    /\ UNCHANGED <<granted, run, exc, envKey, promptStatus, generation_count,
                   slot, delay, errors, responses, extracted_prompts, rawFile,
                   outFile, calls, others, lastSleep, lastOutcome, rawStart,
                   outStart, rawOpened, outOpened, ioFault>>

\* The script is started again: a new process, the files as they were left.
NextRun ==
    /\ pc = "done"
    /\ run < MaxRuns
    /\ run' = run + 1
    /\ pc' = "load_api_key"
    /\ exc' = "none"
    /\ envKey' \in EnvKeys
    /\ promptStatus' \in PromptStates
    /\ generation_count' = 0
    /\ slot' = 0
    /\ delay' = 0
    /\ errors' = 0
    /\ responses' = <<>>
    /\ extracted_prompts' = <<>>
    /\ calls' = 0
    /\ others' = 0
    /\ lastSleep' = 0
    /\ lastOutcome' = "none"
    /\ granted' = <<>>
    /\ rawStart' = rawFile
    /\ outStart' = outFile
    /\ rawOpened' = FALSE
    /\ outOpened' = FALSE
    /\ ioFault' = "none"
    /\ UNCHANGED <<rawFile, outFile>>

(***************************************************************************)
(* The run of main, with the service of a run bounded: it grants at most   *)
(* MaxBatch responses and raises at most MaxRateLimited rate-limit errors. *)
(***************************************************************************)
ServiceSuccess ==
    \E body \in MainBodies : Len(responses) < MaxBatch /\ ApiSuccess(body)

ServiceRateLimited == errors < MaxRateLimited /\ ApiRateLimited

Next ==
    \/ LoadApiKey
    \/ ReadPrompt
    \/ GenerateEnter
    \/ ServiceSuccess
    \/ ServiceRateLimited
    \/ ApiOtherError
    \/ WriteRaw
    \/ ProcessResponses
    \/ WritePrompts
    \/ MainExcept
    \/ NextRun

Spec == Init /\ [][Next]_vars

(***************************************************************************)
(* generate_responses on its own: any generation_count up to MaxCount, and *)
(* a service that may answer every call in any of the three ways.          *)
(***************************************************************************)
InitGen ==
    /\ run = 1
    /\ exc = "none"
    /\ envKey = "set"
    /\ promptStatus = "ok"
    /\ generation_count \in 0 .. MaxCount
    /\ pc = LoopAt(0, generation_count)
    /\ slot = 0
    /\ delay = 2 * INITIAL_DELAY
    /\ errors = 0
    /\ responses = <<>>
    /\ extracted_prompts = <<>>
    /\ rawFile = <<>>
    /\ outFile = <<>>
    /\ calls = 0
    /\ others = 0
    /\ lastSleep = 0
    /\ lastOutcome = "none"
    /\ granted = responses
    /\ rawStart = <<>>
    /\ outStart = <<>>
    /\ rawOpened = FALSE
    /\ outOpened = FALSE
    /\ ioFault = "none"

AnySuccess == \E body \in GenBodies : ApiSuccess(body)

NextGen ==
    \/ AnySuccess
    \/ ApiRateLimited
    \/ ApiOtherError

SpecGen == InitGen /\ [][NextGen]_vars

\* Every call returns or raises: a call that never ends is outside the model.
FairSpecGen == SpecGen /\ WF_vars(NextGen)

(***************************************************************************)
(* process_responses on its own: any list of at most MaxResp bodies.       *)
(***************************************************************************)
RECURSIVE ListsOf(_, _)
ListsOf(S, n) ==
    IF n = 0 THEN {<<>>}
    ELSE ListsOf(S, n - 1) \cup
         {Append(l, b) : l \in {x \in ListsOf(S, n - 1) : Len(x) = n - 1}, b \in S}

InitProcess ==
    /\ run = 1
    /\ exc = "none"
    /\ envKey = "set"
    /\ promptStatus = "ok"
    /\ generation_count = MaxResp
    /\ pc = "process"
    /\ slot = MaxResp
    /\ delay = 2 * INITIAL_DELAY
    /\ errors = 0
    /\ responses \in ListsOf(AllBodies, MaxResp)
    /\ extracted_prompts = <<>>
    /\ rawFile = RawText(responses)
    /\ outFile = <<>>
    /\ calls = MaxResp
    /\ others = MaxResp - Len(responses)
    /\ lastSleep = 0
    /\ lastOutcome = "none"
    /\ granted = responses
    /\ rawStart = <<>>
    /\ outStart = <<>>
    /\ rawOpened = TRUE
    /\ outOpened = FALSE
    /\ ioFault = "none"

NextProcess == ProcessResponses

SpecProcess == InitProcess /\ [][NextProcess]_vars

(***************************************************************************)
(* Helpers of the properties.                                              *)
(***************************************************************************)
IsPrefix(a, b) == Len(a) <= Len(b) /\ SubSeq(b, 1, Len(a)) = a

RECURSIVE SplitLines(_, _)
SplitLines(content, cur) ==
    IF content = <<>> THEN (IF cur = <<>> THEN <<>> ELSE <<cur>>)
    ELSE IF Head(content) = NL
      THEN <<cur>> \o SplitLines(Tail(content), <<>>)
    ELSE SplitLines(Tail(content), Append(cur, Head(content)))

\* The lines of a text file, without their newlines.
Lines(content) == SplitLines(content, <<>>)

TextsOf(prompts) == [i \in 1 .. Len(prompts) |-> prompts[i].text]

\* generate_responses has returned
Returned == pc = "write_raw"

(***************************************************************************)
(* Properties of generate_responses (SpecGen, FairSpecGen).                *)
(***************************************************************************)

\* C1: once the rate-limit error counter exceeds ERROR_CEILING (reaches 21)
\* generation is over: the counter never passes 21, no slot is attempted any
\* more, and when every call was rate-limited exactly 21 calls were made and
\* no response is returned.
C1_AbortsAtCeiling ==
    /\ errors <= ERROR_CEILING + 1
    /\ errors > ERROR_CEILING => pc # "generate"
    /\ (Returned /\ calls > 0 /\ errors = calls) =>
           (calls = ERROR_CEILING + 1 /\ responses = <<>>)

\* C2: a rate-limit failure that leaves the counter at most ERROR_CEILING
\* keeps the slot (the next call is for the same slot), and a run with at
\* most ERROR_CEILING rate-limit failures and no other failure returns
\* exactly generation_count responses.
C2_RateLimitKeepsSlot ==
    /\ [][(errors' = errors + 1 /\ errors' <= ERROR_CEILING) =>
              (slot' = slot /\ pc' = "generate" /\ responses' = responses)]_vars
    /\ []((Returned /\ others = 0 /\ errors <= ERROR_CEILING) =>
              Len(responses) = generation_count)

C2_Witness ==
    /\ Returned
    /\ others = 0
    /\ errors = ERROR_CEILING
    /\ generation_count >= 2
    /\ Len(responses) = generation_count

\* C3: a failure that is no rate-limit failure ends the current slot only:
\* the slot is left, nothing is appended, delay and errors keep their
\* values, and the next slot, if there is one, is attempted.
C3_OtherErrorSkipsSlot ==
    [][others' = others + 1 =>
          /\ slot' = slot + 1
          /\ responses' = responses
          /\ delay' = delay
          /\ errors' = errors
          /\ lastSleep' = lastSleep
          /\ pc' = IF slot + 1 < generation_count THEN "generate" ELSE "write_raw"]_vars

\* a slot was abandoned and the slot after it produced a response
C3_Witness ==
    /\ others = 1
    /\ calls = 2
    /\ lastOutcome = "ok"
    /\ Len(responses) = 1

\* C9: the delay is INITIAL_DELAY + 0.5 * errors (here in half seconds); a
\* rate-limit failure adds one increment and one error and sleeps for the
\* new delay, a success sleeps for the delay and keeps it, and delay, errors
\* and the sleeps never go down.
C9_DelayTracksErrors ==
    /\ [](delay = 2 * INITIAL_DELAY + DELAY_INCREMENT * errors)
    /\ [][/\ errors' = errors + 1 =>
                (delay' = delay + DELAY_INCREMENT /\ lastSleep' = delay')
          /\ Len(responses') > Len(responses) =>
                (delay' = delay /\ errors' = errors /\ lastSleep' = delay)
          /\ errors' \in {errors, errors + 1}
          /\ delay' >= delay
          /\ lastSleep' >= lastSleep]_vars

\* a success sleeping for a delay that rate-limit failures raised before
C9_Witness ==
    /\ lastOutcome = "ok"
    /\ errors = 2
    /\ lastSleep = 2 * INITIAL_DELAY + 2
    /\ Len(responses) = 2

\* C10: generate_responses returns, after at most generation_count +
\* ERROR_CEILING calls of which at most ERROR_CEILING were retries of a
\* slot, and the responses are the texts of the successful calls in call
\* order, at most generation_count of them.
C10_TerminatesBounded ==
    /\ [](/\ calls <= generation_count + ERROR_CEILING
          /\ calls - slot <= ERROR_CEILING
          /\ Len(responses) <= generation_count
          /\ responses = granted)
    /\ <>Returned

C10_Witness ==
    /\ Returned
    /\ generation_count >= 2
    /\ calls = generation_count + ERROR_CEILING
    /\ Len(responses) >= 1

(***************************************************************************)
(* Properties of process_responses (SpecProcess).                          *)
(***************************************************************************)
Records(r) == SelectSeq(r, LAMBDA x : x \in ObjectTokens)

\* the text without its code fence
Unfenced(r) ==
    LET s1 == IF Len(r) > 0 /\ r[1] = FenceOpen THEN Tail(r) ELSE r
    IN  IF Len(s1) > 0 /\ s1[Len(s1)] = FenceClose
          THEN SubSeq(s1, 1, Len(s1) - 1) ELSE s1

\* the response does not parse, or one of its records has no "prompt" key
Malformed(r) ==
    \/ ~JsonLoads(Unfenced(r)).ok
    \/ \E i \in 1 .. Len(Records(r)) :
          "prompt" \notin ObjectValue(Records(r)[i]).keys

Contribution(r) ==
    IF extract_prompts_from_json(r).status = "ok"
      THEN extract_prompts_from_json(r).prompts ELSE <<>>

RECURSIVE Concatenation(_)
Concatenation(rs) ==
    IF rs = <<>> THEN <<>>
    ELSE Contribution(Head(rs)) \o Concatenation(Tail(rs))

\* C4: process_responses raises nothing and returns the concatenation, in
\* response order, of the prompts of the responses whose extraction
\* succeeded; a response that does not parse or has a record without the
\* "prompt" key gives no prompt, and a response gives all the values of its
\* records or none.
C4_ProcessConcatenates ==
    /\ pc # "except"
    /\ pc = "write_prompts" =>
          /\ extracted_prompts = Concatenation(responses)
          /\ \A i \in 1 .. Len(responses) :
                /\ Malformed(responses[i]) => Contribution(responses[i]) = <<>>
                /\ Len(Contribution(responses[i])) \in
                       {0, Len(Records(responses[i]))}

\* a good response before a partly keyed one and after a bad one
C4_Witness ==
    /\ pc = "write_prompts"
    /\ \/ responses = <<PlainAB, PartlyKeyed>>
       \/ responses = <<NotJson, PlainAB>>
    /\ TextsOf(extracted_prompts) = << <<"a">>, <<"b">> >>

(***************************************************************************)
(* Properties of a run of main (Spec).                                     *)
(***************************************************************************)
WellFormed(r) ==
    /\ extract_prompts_from_json(r).status = "ok"
    /\ \A i \in 1 .. Len(extract_prompts_from_json(r).prompts) :
          extract_prompts_from_json(r).prompts[i].isStr

RECURSIVE WellFormedPrompts(_)
WellFormedPrompts(rs) ==
    IF rs = <<>> THEN <<>>
    ELSE (IF WellFormed(Head(rs)) THEN Contribution(Head(rs)) ELSE <<>>)
             \o WellFormedPrompts(Tail(rs))

\* C5: when a run of main ends and no I/O error hit a file, the write of
\* the extracted prompts was not aborted, and what the run appended to the
\* extracted-prompts file is the prompts of every well-formed response of
\* the batch, a malformed response losing its own prompts only.
C5_MalformedLosesOnlyItself ==
    (pc = "done" /\ rawOpened /\ ioFault = "none") =>
        /\ exc = "none"
        /\ outFile = outStart \o PromptText(WellFormedPrompts(responses))

\* C6: the extracted-prompts file only grows: its content at the start of
\* the run is a prefix of its content, and a run that ended without error
\* added one line per extracted prompt, in extraction order.
C6_AppendOnlyLines ==
    /\ IsPrefix(outStart, outFile)
    /\ (pc = "done" /\ exc = "none") =>
           Lines(outFile) = Lines(outStart) \o TextsOf(extracted_prompts)

\* C7: once write_raw_responses_to_file has succeeded the raw-response file
\* has one line per response of the batch, the i-th line being the i-th
\* response, and nothing of an earlier run.
C7_RawOneLinePerResponse ==
    pc = "process" =>
        /\ Len(Lines(rawFile)) = Len(responses)
        /\ Lines(rawFile) = responses

\* C8: main runs its steps in order and stops at the first failure: without
\* a credential or a readable template no call is made and no output file is
\* opened or changed (the credential is looked at first); calls are made
\* only with both; the raw file is opened only when generation is over;
\* extraction follows the complete raw write and the extracted-prompts file
\* is opened only after both; and no exception leaves main.
C8_MainOrderFailStop ==
    /\ pc # "escaped"
    /\ (envKey # "set" \/ promptStatus # "ok") =>
           /\ calls = 0
           /\ ~rawOpened
           /\ ~outOpened
           /\ rawFile = rawStart
           /\ outFile = outStart
    /\ pc \in {"load_api_key", "read_prompt", "generate_enter"} =>
           (calls = 0 /\ ~rawOpened /\ ~outOpened)
    /\ pc = "generate" => (~rawOpened /\ ~outOpened)
    /\ pc \in {"process", "write_prompts"} =>
           (rawOpened /\ ~outOpened /\ rawFile = RawText(responses))
    /\ extracted_prompts # <<>> => pc \in {"write_prompts", "except", "done"}
    /\ (exc # "none" /\ envKey # "set") => exc = "ValueError"
    /\ ~rawOpened => rawFile = rawStart
    /\ ~outOpened => outFile = outStart
    /\ ioFault = "raw" => ~outOpened
    /\ outOpened => (rawOpened /\ rawFile = RawText(responses))
    /\ pc = "done" => (exc # "none" \/ (rawOpened /\ outOpened))

\* a second run whose raw write failed: the extracted prompts of the first
\* run are untouched
C8_Witness ==
    /\ pc = "done"
    /\ ioFault = "raw"
    /\ calls > 0
    /\ outStart # <<>>
    /\ outFile = outStart

====
